---- MODULE Spec2Model ----
(***************************************************************************)
(* A model of textTR: the chunked file splitter and merger                 *)
(* (src/text_splitter.py), the translation fallback chain and the          *)
(* per-line translation data (src/translation_manager.py), and the text    *)
(* protector (src/textTR_V3_Full/ai_translator.py).                        *)
(*                                                                         *)
(* A text is a sequence of one-character strings.  A file is a sequence of *)
(* lines; a line of the splitter's input stands for the line together      *)
(* with its terminator, and is identified by a natural number.             *)
(***************************************************************************)
EXTENDS Integers, Sequences, FiniteSets, TLC

VARIABLES
    \* ---- splitter / merger (src/text_splitter.py)
    input,           \* the lines of the input file
    lines_per_file,  \* split_text_file's lines_per_file
    spc,             \* position in split_text_file / merge_text_files
    pos,             \* number of lines the `for line in infile` loop has consumed
    file_number,     \* split_text_file's file_number
    current_lines,   \* split_text_file's current_lines
    output_files,    \* split_text_file's output_files (the manifest)
    split_result,    \* what split_text_file returned
    disk,            \* the output directory: [name, content] in creation order
    files,           \* merge_text_files' files (sorted glob result)
    mi,              \* number of files merge_text_files has copied
    merged,          \* content of merge_text_files' output file
    input_exists,    \* whether input_file exists (input_path.exists())
    create_folder,   \* split_text_file's create_folder
    output_dir,      \* the folder of the split: "none", or "created" by mkdir
    \* ---- merge_text_files on the bytes of the files
    folder,          \* the source folder: file name -> the bytes of the file
    linesep,         \* os.linesep of the platform
    pattern_all,     \* whether file_pattern also matches the output file's name
    matched,         \* merge_text_files' files (sorted glob result)
    mpc,             \* position in merge_text_files
    mcount,          \* number of files the loop has copied
    written,         \* what has been written to outfile (bytes)
    expected,        \* history: the bytes of the matched files, in order, at the glob
    \* ---- translation fallback chain (TranslationEngine.translate)
    text,            \* translate's text
    after_sep,       \* translate's translate_only_after_separator
    has_gemini,      \* whether an API key put _try_gemini first in self.engines
    epc,             \* position in translate
    ei,              \* number of engines of self.engines the loop has gone through
    tried,           \* history: the engine calls translate has made, in order
    result,          \* what translate returned
    raised,          \* whether translate ended by raising to its caller
    \* ---- text protector (TextProtector.protect_text / restore_text)
    ptext,           \* protect_text's text
    enabled_patterns,\* self.enabled_patterns
    ppc,             \* position in protect_text / restore_text
    todo,            \* the enabled patterns the loop of protect_text has yet to visit
    protected_text,  \* protect_text's protected_text
    placeholders,    \* protect_text's placeholders, in insertion order
    placeholder_counter, \* protect_text's placeholder_counter
    restored_text,   \* what restore_text returned
    \* ---- translation tab (TranslationTab and its TranslationData)
    lines,           \* translation_data.lines
    selected_line,   \* variables['selected_line']: a 0-based index, or -1
    gemini_available,\* translation_engine.is_gemini_available()
    is_working,      \* StatusMixin._is_working
    cancel_translation, \* TranslationTab.cancel_translation
    progress_window, \* the progress dialog (it holds the grab): "none", or what its
                     \* message label shows, "prepare" or "item"
    workers,         \* the running _translate_batch_thread threads
    ui_queue,        \* callbacks scheduled with parent.after(0, ...), not yet run
    root_alive,      \* whether the Tk root window exists (root.destroy() not yet called)
    last_op,         \* history: the operation that made the last step
    \* ---- file tabs (FileSplitterTab, FileMergerTab of src/file_operations.py)
    split_tab,       \* the splitter tab: its flag, button, thread and last report
    merge_tab,       \* the merger tab: the same
    \* ---- the custom pattern dialog (show_custom_pattern_dialog)
    custom_patterns, \* the custom entries of TextProtector.patterns: [name, pattern]
    custom_enabled,  \* the custom names in TextProtector.enabled_patterns
    pattern_vars,    \* the custom names in variables['protection_patterns']
    pattern_report,  \* what save_pattern told the user last
    \* ---- pagination (calculate_pagination, get_page_items)
    total_items,     \* calculate_pagination's total_items; items is 0..total_items-1
    items_per_page,  \* items_per_page of both functions
    gpc,             \* position of the caller that pages through the items
    total_pages,     \* what calculate_pagination returned as total_pages
    page,            \* the last page asked of get_page_items
    slices,          \* what get_page_items returned for the pages 1..page
    \* ---- saving the translation (TranslationData.save_to_file)
    file_path,       \* TranslationData.file_path: "none", or the loaded file
    disk_file,       \* the lines of the loaded file as they are on disk
    last_backup,     \* the lines of the newest {file}.backup_* file, or "none"
    last_save,       \* history: the last save_to_file call
    \* ---- the page controls of the translation tab
    current_page,    \* variables['current_page']
    lines_per_page,  \* variables['lines_per_page'], bound to the spinbox
    var_total_pages  \* variables['total_pages']

splitVars == <<input, lines_per_file, spc, pos, file_number, current_lines,
               output_files, split_result, disk, files, mi, merged>>

prepVars == <<input_exists, create_folder, output_dir>>

mrgVars == <<folder, linesep, pattern_all, matched, mpc, mcount, written, expected>>

engVars == <<text, after_sep, has_gemini, epc, ei, tried, result, raised>>

protVars == <<ptext, enabled_patterns, ppc, todo, protected_text, placeholders,
              placeholder_counter, restored_text>>

tabVars == <<lines, selected_line, gemini_available, is_working, cancel_translation,
             progress_window, workers, ui_queue, root_alive, last_op>>

fileVars == <<split_tab, merge_tab>>

patVars == <<custom_patterns, custom_enabled, pattern_vars, pattern_report>>

pageVars == <<total_items, items_per_page, gpc, total_pages, page, slices>>

\* The dialogs, panels and helpers that have a model of their own.
saveVars == <<file_path, disk_file, last_backup, last_save>>

navVars == <<current_page, lines_per_page, var_total_pages>>

dlgVars == <<patVars, pageVars, saveVars, navVars>>

notPatterns == <<splitVars, prepVars, mrgVars, engVars, protVars, tabVars, fileVars,
                 pageVars, saveVars, navVars>>
notPages == <<splitVars, prepVars, mrgVars, engVars, protVars, tabVars, fileVars,
              patVars, saveVars, navVars>>
\* Saving reads the translation data and leaves it alone.
notSave == <<splitVars, prepVars, mrgVars, engVars, protVars, tabVars, fileVars,
             patVars, pageVars, navVars>>

vars == <<splitVars, prepVars, mrgVars, engVars, protVars, tabVars, fileVars, dlgVars>>

\* What the actions of one component leave alone.
notSplit == <<mrgVars, engVars, protVars, tabVars, fileVars, dlgVars>>
notEngine == <<splitVars, prepVars, mrgVars, protVars, tabVars, fileVars, dlgVars>>
notProtector == <<splitVars, prepVars, mrgVars, engVars, tabVars, fileVars, dlgVars>>
notTab == <<splitVars, prepVars, mrgVars, engVars, protVars, fileVars, dlgVars>>
notMerge == <<splitVars, prepVars, engVars, protVars, tabVars, fileVars, dlgVars>>
\* The file tabs share the event loop's queue with the translation tab.
notFiles == <<splitVars, prepVars, mrgVars, engVars, protVars, lines, selected_line,
              gemini_available, is_working, cancel_translation, progress_window,
              workers, root_alive, last_op, dlgVars>>

\* ------------------------------------------------------------------ bounds
MaxLines == 4        \* longest enumerated input file, in lines
MaxLinesPerFile == 3 \* largest enumerated lines_per_file
MaxTextLen == 3      \* longest enumerated text given to translate
MaxFileLen == 2      \* longest enumerated file given to merge_text_files, in bytes
MaxProtectLen == 4   \* longest enumerated text given to protect_text
MaxDataLines == 2    \* longest file loaded into a TranslationData, in lines
MaxTabLines == 2     \* longest file loaded into the translation tab, in lines
MaxBatches == 2      \* most batch translations started and not yet completed
LineVals == 1..2     \* contents a line of an enumerated input may have

\* ------------------------------------------------------- general helpers
Ceil(a, b) == (a + b - 1) \div b

Min(a, b) == IF a <= b THEN a ELSE b
Max(a, b) == IF a >= b THEN a ELSE b

RECURSIVE Pow(_, _)
Pow(b, e) == IF e = 0 THEN 1 ELSE b * Pow(b, e - 1)

SeqsUpTo(S, n) == UNION {[1..k -> S] : k \in 0..n}

\* ------------------------------------------------------------ file names
\* The width of the {file_number:03d} field.
PadWidth == 3

\* Code points of the characters that occur in the output file names.
Ord(c) ==
    CASE c = "." -> 46
      [] c = "0" -> 48 [] c = "1" -> 49 [] c = "2" -> 50 [] c = "3" -> 51
      [] c = "4" -> 52 [] c = "5" -> 53 [] c = "6" -> 54 [] c = "7" -> 55
      [] c = "8" -> 56 [] c = "9" -> 57
      [] c = "_" -> 95 [] c = "a" -> 97 [] c = "p" -> 112 [] c = "r" -> 114
      [] c = "t" -> 116 [] c = "x" -> 120

DigitChar(d) == <<"0", "1", "2", "3", "4", "5", "6", "7", "8", "9">>[d + 1]

\* str(n) for n >= 0.
RECURSIVE Decimal(_)
Decimal(n) == IF n < 10 THEN <<DigitChar(n)>>
              ELSE Decimal(n \div 10) \o <<DigitChar(n % 10)>>

\* f"{n:03d}": zero-padded to at least PadWidth digits, never truncated.
RECURSIVE ZeroPad(_, _)
ZeroPad(s, w) == IF Len(s) >= w THEN s ELSE ZeroPad(<<"0">> \o s, w)

\* A number field without the padding.
FormatUnpadded(n) == Decimal(n)

Format03d(n) == ZeroPad(Decimal(n), PadWidth)

\* f"{output_prefix}_part_{file_number:03d}.txt"; the output prefix and the
\* directory are the same for every file of one split and are left out.
OutputFilename(n) ==
    <<"_", "p", "a", "r", "t", "_">> \o Format03d(n) \o <<".", "t", "x", "t">>

\* Python's str < str: lexicographic by code point, a proper prefix first.
RECURSIVE StrLess(_, _)
StrLess(a, b) ==
    IF b = <<>> THEN FALSE
    ELSE IF a = <<>> THEN TRUE
    ELSE IF Head(a) = Head(b) THEN StrLess(Tail(a), Tail(b))
    ELSE Ord(Head(a)) < Ord(Head(b))

\* sorted(glob.glob(pattern)) over the names in the directory.
SortedNames(names) == SortSeq(names, LAMBDA a, b : StrLess(a, b))

\* ---------------------------------------------------------------- split
\* The inputs: every file of up to MaxLines lines with every lines_per_file
\* up to MaxLinesPerFile, and one file whose split with one line per file
\* needs one more digit than the name's number field has.
BigInput == [i \in 1..Pow(10, PadWidth) |-> i]

SplitInputs ==
    {<<f, l>> : f \in SeqsUpTo(LineVals, MaxLines), l \in 1..MaxLinesPerFile}
        \cup {<<BigInput, 1>>}

SplitIdle ==
    /\ input = <<>> /\ lines_per_file = 1 /\ spc = "idle" /\ pos = 0
    /\ file_number = 0 /\ current_lines = 0 /\ output_files = <<>>
    /\ split_result = "none" /\ disk = <<>> /\ files = <<>> /\ mi = 0
    /\ merged = <<>>
    /\ input_exists = TRUE /\ create_folder = TRUE /\ output_dir = "none"

MergeIdle ==
    /\ folder = <<>> /\ linesep = <<"\n">> /\ pattern_all = FALSE /\ matched = <<>>
    /\ mpc = "idle" /\ mcount = 0 /\ written = <<>> /\ expected = <<>>

EngineIdle ==
    /\ text = <<>> /\ after_sep = FALSE /\ has_gemini = FALSE /\ epc = "idle"
    /\ ei = 0 /\ tried = <<>> /\ result = <<>> /\ raised = FALSE

ProtectorIdle ==
    /\ ptext = <<>> /\ enabled_patterns = {} /\ ppc = "idle" /\ todo = {}
    /\ protected_text = <<>> /\ placeholders = <<>> /\ placeholder_counter = 0
    /\ restored_text = <<>>

NoOp == [kind |-> "none", line |-> -1, outcome |-> "none"]

\* A file tab at rest (set by BaseTabComponent's constructor and
\* create_widgets): not working, button enabled, no thread, nothing reported.
IdleTab == [working |-> FALSE, button |-> "normal", thread |-> "none",
            outcome |-> "none", shown |-> "none"]

FilesIdle == split_tab = IdleTab /\ merge_tab = IdleTab

\* No custom pattern has been entered.
PatternsIdle ==
    /\ custom_patterns = {} /\ custom_enabled = {} /\ pattern_vars = {}
    /\ pattern_report = "none"

PagesIdle ==
    /\ total_items = 0 /\ items_per_page = 1 /\ gpc = "idle" /\ total_pages = 0
    /\ page = 0 /\ slices = <<>>

NoSave == [kind |-> "none", backup |-> "none", written |-> FALSE, before |-> <<>>]

SaveIdle ==
    /\ file_path = "none" /\ disk_file = <<>> /\ last_backup = "none"
    /\ last_save = NoSave

DEFAULT_LINES_PER_PAGE == 10

\* TranslationTab.__init__ (lines 392-394): the IntVars of the page controls.
NavIdle ==
    current_page = 1 /\ lines_per_page = DEFAULT_LINES_PER_PAGE /\ var_total_pages = 0

DialogsIdle == PatternsIdle /\ PagesIdle /\ SaveIdle /\ NavIdle

TabIdle ==
    /\ FilesIdle
    /\ DialogsIdle
    /\ lines = <<>> /\ selected_line = -1 /\ gemini_available = FALSE
    /\ is_working = FALSE /\ cancel_translation = FALSE /\ progress_window = "none"
    /\ workers = <<>> /\ ui_queue = <<>> /\ root_alive = TRUE /\ last_op = NoOp

SplitInit ==
    /\ MergeIdle
    /\ EngineIdle
    /\ ProtectorIdle
    /\ TabIdle
    /\ \/ /\ input_exists = TRUE
          /\ \E in \in SplitInputs : input = in[1] /\ lines_per_file = in[2]
       \/ /\ input_exists = FALSE
          /\ input = <<>>
          /\ lines_per_file \in 1..MaxLinesPerFile
    /\ create_folder \in BOOLEAN
    /\ output_dir = "none"
    /\ spc = "start"
    /\ pos = 0
    /\ file_number = 0
    /\ current_lines = 0
    /\ output_files = <<>>
    /\ split_result = "none"
    /\ disk = <<>>
    /\ files = <<>>
    /\ mi = 0
    /\ merged = <<>>

\* The folder with an existence check that comes after the mkdir.
DirMadeBeforeCheck(dir, create) == IF create THEN "created" ELSE dir

\* The folder when input_path.exists() is tested (line 29): nothing has been
\* made yet, the mkdir is at line 42.
DirAtExistsCheck(dir, create) == dir

\* output_dir.mkdir(exist_ok=True) (lines 37-45), with create_folder.
Mkdir(dir, create) == IF create THEN "created" ELSE dir

\* Lines 26-30: the input path does not exist; FileNotFoundError is raised.
SplitMissing ==
    /\ UNCHANGED <<notSplit, input_exists, create_folder>>
    /\ spc = "start"
    /\ ~input_exists
    /\ spc' = "not_found"
    /\ split_result' = "raised"
    /\ output_dir' = DirAtExistsCheck(output_dir, create_folder)
    /\ UNCHANGED <<input, lines_per_file, pos, file_number, current_lines,
                   output_files, disk, files, mi, merged>>

\* Line 42: the mkdir itself raises (no permission, a file of that name);
\* the exception leaves split_text_file, nothing has been made.
SplitMkdirFail ==
    /\ UNCHANGED <<notSplit, prepVars>>
    /\ spc = "start"
    /\ input_exists
    /\ create_folder
    /\ spc' = "mkdir_failed"
    /\ split_result' = "raised"
    /\ UNCHANGED <<input, lines_per_file, pos, file_number, current_lines,
                   output_files, disk, files, mi, merged>>

\* Lines 32-54, the input being there: the folder is made, the manifest
\* emptied, the input opened, the counters set.
SplitOpen ==
    /\ UNCHANGED <<notSplit, input_exists, create_folder>>
    /\ spc = "start"
    /\ input_exists
    /\ output_dir' = Mkdir(output_dir, create_folder)
    /\ spc' = "split"
    /\ file_number' = 1
    /\ current_lines' = 0
    /\ output_files' = <<>>
    /\ UNCHANGED <<input, lines_per_file, pos, split_result, disk, files, mi, merged>>

\* The directory after open(name, 'w'): a new empty file, or the old one truncated.
OpenForWrite(d, name) ==
    IF \E i \in 1..Len(d) : d[i].name = name
    THEN [i \in 1..Len(d) |-> IF d[i].name = name
                              THEN [d[i] EXCEPT !.content = <<>>] ELSE d[i]]
    ELSE Append(d, [name |-> name, content |-> <<>>])

\* A part file that loses what is written to it.
WriteLineLost(d, name, line) == d

\* outfile.write(line): outfile is the file opened last, the manifest's last name.
WriteLine(d, name, line) ==
    [i \in 1..Len(d) |-> IF d[i].name = name
                         THEN [d[i] EXCEPT !.content = Append(@, line)] ELSE d[i]]

\* A chunk that is closed one line late.
ChunkFullLate(n, l) == n > l

\* When the counters move on to the next file (line 75).
ChunkFull(n, l) == n >= l

\* Lines 56-77: one iteration of `for line in infile`.
SplitLine ==
    /\ UNCHANGED <<notSplit, prepVars>>
    /\ spc = "split"
    /\ pos < Len(input)
    /\ LET line  == input[pos + 1]
           fresh == current_lines = 0
           name  == OutputFilename(file_number)
           manifest == IF fresh THEN Append(output_files, name) ELSE output_files
           d1    == IF fresh THEN OpenForWrite(disk, name) ELSE disk
           cur   == manifest[Len(manifest)]
       IN /\ output_files' = manifest
          /\ disk' = WriteLine(d1, cur, line)
          /\ IF ChunkFull(current_lines + 1, lines_per_file)
             THEN current_lines' = 0 /\ file_number' = file_number + 1
             ELSE current_lines' = current_lines + 1 /\ file_number' = file_number
    /\ pos' = pos + 1
    /\ UNCHANGED <<input, lines_per_file, spc, split_result, files, mi, merged>>

\* Lines 79-91: the loop is over, the last file closed, the manifest returned.
SplitReturn ==
    /\ UNCHANGED <<notSplit, prepVars>>
    /\ spc = "split"
    /\ pos = Len(input)
    /\ spc' = "split_done"
    /\ split_result' = "manifest"
    /\ UNCHANGED <<input, lines_per_file, pos, file_number, current_lines,
                   output_files, disk, files, mi, merged>>

\* Lines 83-85: an exception while reading or writing; [] is returned and the
\* files written so far stay.
SplitFail ==
    /\ UNCHANGED <<notSplit, prepVars>>
    /\ spc = "split"
    /\ spc' = "split_failed"
    /\ split_result' = "empty"
    /\ UNCHANGED <<input, lines_per_file, pos, file_number, current_lines,
                   output_files, disk, files, mi, merged>>

\* Lines 59-71 and 83-85: the iteration that raises while it opens the next
\* part file (the name is already in the manifest, no file is made) or while
\* it writes the line (a part file just opened stays, empty).  [] is returned.
SplitLineFail ==
    /\ UNCHANGED <<notSplit, prepVars>>
    /\ spc = "split"
    /\ pos < Len(input)
    /\ LET fresh == current_lines = 0
           name  == OutputFilename(file_number)
       IN /\ output_files' = IF fresh THEN Append(output_files, name) ELSE output_files
          /\ \E at \in {"open", "write"} :
                /\ at = "open" => fresh
                /\ disk' = IF fresh /\ at = "write" THEN OpenForWrite(disk, name) ELSE disk
    /\ spc' = "split_failed"
    /\ split_result' = "empty"
    /\ UNCHANGED <<input, lines_per_file, pos, file_number, current_lines, files, mi, merged>>

\* ---------------------------------------------------------------- merge
\* Lines 106-141 of merge_text_files, called with the pattern
\* {prefix}_part_*.txt on the directory of a finished split: the glob matches
\* every part file; the output file is opened (outside that directory).
MergeOpen ==
    /\ UNCHANGED <<notSplit, prepVars>>
    /\ spc = "split_done"
    /\ disk # <<>>
    /\ files' = SortedNames([i \in 1..Len(disk) |-> disk[i].name])
    /\ mi' = 0
    /\ merged' = <<>>
    /\ spc' = "merge"
    /\ UNCHANGED <<input, lines_per_file, pos, file_number, current_lines,
                   output_files, split_result, disk>>

ReadFile(d, name) == (CHOOSE r \in {d[i] : i \in 1..Len(d)} : r.name = name).content

\* Lines 142-147: outfile.write(infile.read()) for the next file.
MergeCopy ==
    /\ UNCHANGED <<notSplit, prepVars>>
    /\ spc = "merge"
    /\ mi < Len(files)
    /\ merged' = merged \o ReadFile(disk, files[mi + 1])
    /\ mi' = mi + 1
    /\ UNCHANGED <<input, lines_per_file, spc, pos, file_number, current_lines,
                   output_files, split_result, disk, files>>

\* Lines 153-154: every file copied, the output path returned.
MergeReturn ==
    /\ UNCHANGED <<notSplit, prepVars>>
    /\ spc = "merge"
    /\ mi = Len(files)
    /\ spc' = "merge_done"
    /\ UNCHANGED <<input, lines_per_file, pos, file_number, current_lines,
                   output_files, split_result, disk, files, mi, merged>>

SplitNext ==
    \/ SplitMissing
    \/ SplitMkdirFail
    \/ SplitOpen
    \/ SplitLine
    \/ SplitReturn
    \/ SplitFail
    \/ SplitLineFail
    \/ MergeOpen
    \/ MergeCopy
    \/ MergeReturn

SpecSplit == SplitInit /\ [][SplitNext]_vars

\* ------------------------------------------------- claims on the splitter
\* How many lines the i-th of the files a split of n lines, l per file, holds.
ExpectedLines(n, l, i) ==
    IF i < Ceil(n, l) THEN l ELSE IF n % l = 0 THEN l ELSE n % l

\* C1: a finished split of a non-empty file of N lines with lines_per_file = L
\* has produced exactly ceil(N / L) files, each holding exactly L lines except
\* the last, which holds N mod L lines (L when N mod L = 0).
SplitCounts ==
    (spc = "split_done" /\ Len(input) >= 1) =>
        /\ Len(output_files) = Ceil(Len(input), lines_per_file)
        /\ Len(disk) = Len(output_files)
        /\ \A i \in 1..Len(output_files) :
              Len(ReadFile(disk, output_files[i]))
                  = ExpectedLines(Len(input), lines_per_file, i)

\* A finished split of several files whose last file is short.
SplitCountsWitness ==
    /\ spc = "split_done"
    /\ Len(output_files) >= 2
    /\ Len(input) % lines_per_file # 0

\* C2: merging the part files of a finished split in name order gives back
\* the lines of the input file, whatever the number of part files.
RoundTrip ==
    spc = "merge_done" => merged = input

\* The lines of the files of a directory, in creation order.
RECURSIVE FlattenRange(_, _, _)
FlattenRange(d, a, b) ==
    IF a > b THEN <<>>
    ELSE IF a = b THEN d[a].content
    ELSE LET m == (a + b) \div 2
         IN FlattenRange(d, a, m) \o FlattenRange(d, m + 1, b)

Flatten(d) == FlattenRange(d, 1, Len(d))

\* C25: split_text_file on a path that does not exist fails with
\* FileNotFoundError before any side effect: no folder and no output file
\* has been made, the manifest is empty.
NotFoundBeforeSideEffects ==
    spc = "not_found" =>
        /\ split_result = "raised"
        /\ output_dir = "none"
        /\ disk = <<>>
        /\ output_files = <<>>

\* The call on a missing path has failed, with create_folder on.
NotFoundBeforeSideEffectsWitness ==
    spc = "not_found" /\ ~input_exists /\ create_folder

\* C18: when an exception is raised while split_text_file reads or writes,
\* it returns the empty manifest, and the part files written so far stay on
\* disk: together they hold the lines consumed before the failure.
PartialFilesKept ==
    spc = "split_failed" =>
        /\ split_result = "empty"
        /\ Flatten(disk) = SubSeq(input, 1, pos)

\* A split that failed after it had written a whole part file and more.
PartialFilesKeptWitness ==
    /\ spc = "split_failed"
    /\ pos < Len(input)
    /\ Len(disk) >= 2
    /\ disk[1].content # <<>>

\* The digits of a part file's name, and the number they spell.
NumberField(name) == SubSeq(name, 7, Len(name) - 4)

RECURSIVE ParseDecimal(_)
ParseDecimal(ds) == IF ds = <<>> THEN 0
                    ELSE 10 * ParseDecimal(SubSeq(ds, 1, Len(ds) - 1))
                             + (Ord(ds[Len(ds)]) - Ord("0"))

\* C20: the i-th file of one split, in creation order, is named
\* _part_NNN.txt where NNN spells i, zero-padded to 3 digits (wider only when
\* i itself has more digits): the numbers run 1, 2, 3, ... with no gap or
\* repeat and grow with creation order.
NumberingContiguous ==
    /\ Len(disk) <= Len(output_files)
    /\ \A i \in 1..Len(output_files) :
          LET name == output_files[i]
          IN /\ SubSeq(name, 1, 6) = <<"_", "p", "a", "r", "t", "_">>
             /\ SubSeq(name, Len(name) - 3, Len(name)) = <<".", "t", "x", "t">>
             /\ ParseDecimal(NumberField(name)) = i
             /\ Len(NumberField(name)) = IF i < Pow(10, PadWidth) THEN PadWidth
                                         ELSE Len(Decimal(i))
             /\ i <= Len(disk) => disk[i].name = name

\* A finished split whose last file number has more digits than the field.
NumberingContiguousWitness ==
    /\ spc = "split_done"
    /\ Len(output_files) = Pow(10, PadWidth)
    /\ Len(disk) = Len(output_files)

\* ------------------------------------------- merge, on the files' bytes
\* The bytes a file may hold: a letter, a carriage return, a line feed.
FileAlphabet == {"a", "\r", "\n"}

FileContents == SeqsUpTo(FileAlphabet, MaxFileLen)

\* The files the folder may hold: two part files and the output file.
PartNames == {<<"p", "1">>, <<"p", "2">>}
OutputName == <<"p", "9">>

Folders ==
    UNION {[ns -> FileContents] : ns \in SUBSET (PartNames \cup {OutputName})}

\* The universal-newlines translation of open(path, 'r'): "\r\n" and "\r"
\* are read as "\n".
RECURSIVE TextRead(_)
TextRead(bytes) ==
    IF bytes = <<>> THEN <<>>
    ELSE IF Head(bytes) = "\r"
         THEN IF Len(bytes) >= 2 /\ bytes[2] = "\n"
              THEN <<"\n">> \o TextRead(Tail(Tail(bytes)))
              ELSE <<"\n">> \o TextRead(Tail(bytes))
         ELSE <<Head(bytes)>> \o TextRead(Tail(bytes))

\* The translation of open(path, 'w'): "\n" is written as os.linesep.
RECURSIVE TextWrite(_, _)
TextWrite(chars, sep) ==
    IF chars = <<>> THEN <<>>
    ELSE (IF Head(chars) = "\n" THEN sep ELSE <<Head(chars)>>)
             \o TextWrite(Tail(chars), sep)

RECURSIVE SetToSeq(_)
SetToSeq(set) == IF set = {} THEN <<>>
                 ELSE LET x == CHOOSE y \in set : TRUE
                      IN <<x>> \o SetToSeq(set \ {x})

\* glob.glob(search_pattern): the names in the folder the pattern matches.
Glob(dir, all) == {n \in DOMAIN dir : all \/ n # OutputName}

RECURSIVE ContentsOf(_, _)
ContentsOf(dir, names) ==
    IF names = <<>> THEN <<>> ELSE dir[Head(names)] \o ContentsOf(dir, Tail(names))

\* open(output_file, 'w') and its close: the file holds what was flushed.
WithOutput(dir, bytes) ==
    [n \in DOMAIN dir \cup {OutputName} |-> IF n = OutputName THEN bytes ELSE dir[n]]

\* What open(file_path, 'r') finds: the file's bytes; of the output file
\* itself, what has been flushed of the bytes written so far.
OnDisk(dir, name, buffered) ==
    IF name = OutputName THEN {<<>>, buffered} ELSE {dir[name]}

MergeInit ==
    /\ SplitIdle
    /\ EngineIdle
    /\ ProtectorIdle
    /\ TabIdle
    /\ folder \in Folders
    /\ linesep \in {<<"\n">>, <<"\r", "\n">>}
    /\ pattern_all \in BOOLEAN
    /\ matched = <<>>
    /\ mpc = "start"
    /\ mcount = 0
    /\ written = <<>>
    /\ expected = <<>>

\* Lines 106-141: the glob, sorted; FileNotFoundError when nothing matches;
\* otherwise the output file is opened for writing.
MergeGlob ==
    /\ UNCHANGED notMerge
    /\ mpc = "start"
    /\ LET names == SortedNames(SetToSeq(Glob(folder, pattern_all)))
       IN IF names = <<>>
          THEN /\ mpc' = "raised"
               /\ UNCHANGED <<folder, matched, expected>>
          ELSE /\ mpc' = "copy"
               /\ matched' = names
               /\ expected' = ContentsOf(folder, names)
               /\ folder' = WithOutput(folder, <<>>)
    /\ UNCHANGED <<linesep, pattern_all, mcount, written>>

\* Lines 142-147: outfile.write(infile.read()) for the next file.
MergeCopyText ==
    /\ UNCHANGED notMerge
    /\ mpc = "copy"
    /\ mcount < Len(matched)
    /\ \E bytes \in OnDisk(folder, matched[mcount + 1], written) :
          written' = written \o TextWrite(TextRead(bytes), linesep)
    /\ mcount' = mcount + 1
    /\ UNCHANGED <<folder, linesep, pattern_all, matched, mpc, expected>>

\* Lines 149-151: an exception while a file is opened, read or written; the
\* output file is closed with what was written, None is returned.
MergeAbort ==
    /\ UNCHANGED notMerge
    /\ mpc = "copy"
    /\ mcount < Len(matched)
    /\ mpc' = "failed"
    /\ folder' = WithOutput(folder, written)
    /\ UNCHANGED <<linesep, pattern_all, matched, mcount, written, expected>>

\* Lines 153-154: every file copied, the output closed and its path returned.
MergeFinish ==
    /\ UNCHANGED notMerge
    /\ mpc = "copy"
    /\ mcount = Len(matched)
    /\ mpc' = "done"
    /\ folder' = WithOutput(folder, written)
    /\ UNCHANGED <<linesep, pattern_all, matched, mcount, written, expected>>

MergeNext ==
    \/ MergeGlob
    \/ MergeCopyText
    \/ MergeAbort
    \/ MergeFinish

SpecMerge == MergeInit /\ [][MergeNext]_vars

\* ----------------------------------------------- claims on the merger
\* C17: when merge_text_files succeeds, the output file holds exactly the
\* bytes of every file the glob matched, each file once and unchanged, in
\* the sorted order of the names.
MergeVerbatim ==
    mpc = "done" => folder[OutputName] = expected

\* ------------------------------------------------------------ text helpers
\* str.isspace on the characters of the model's alphabets.
IsSpace(c) == c = " "

RECURSIVE LStrip(_)
LStrip(s) == IF s # <<>> /\ IsSpace(Head(s)) THEN LStrip(Tail(s)) ELSE s

RECURSIVE RStrip(_)
RStrip(s) == IF s # <<>> /\ IsSpace(s[Len(s)])
             THEN RStrip(SubSeq(s, 1, Len(s) - 1)) ELSE s

\* str.strip()
Strip(s) == RStrip(LStrip(s))

\* s[i:] and s[:i] for 0 <= i.
From(s, i) == SubSeq(s, i + 1, Len(s))
UpTo(s, i) == SubSeq(s, 1, Min(i, Len(s)))

StartsWith(s, p) == Len(p) <= Len(s) /\ SubSeq(s, 1, Len(p)) = p

EndsWith(s, p) == Len(p) <= Len(s) /\ SubSeq(s, Len(s) - Len(p) + 1, Len(s)) = p

\* str.find: the lowest 0-based index at which sub occurs in s, or -1.
Find(s, sub) ==
    LET at == {i \in 0..(Len(s) - Len(sub)) : SubSeq(s, i + 1, i + Len(sub)) = sub}
    IN IF at = {} THEN -1 ELSE CHOOSE i \in at : \A j \in at : i <= j

\* sub in s
Contains(s, sub) == Find(s, sub) >= 0

\* ------------------------------------- translation fallback chain: translate
\* custom_separator, at its default.
Separator == <<":">>

TextAlphabet == {" ", ":", "a"}

Texts == SeqsUpTo(TextAlphabet, MaxTextLen)

\* self.engines as __init__ builds it (lines 47-59).
Engines(gemini) ==
    (IF gemini THEN <<"gemini">> ELSE <<>>)
        \o <<"googletrans", "deep_translator", "google_api", "simple">>

\* What a translation service may answer besides the text it was sent: nothing
\* (an empty string, or None), blank text, a translation.
Answers == {<<>>, <<" ">>, <<"x">>}

\* What calling an engine of the chain can do: raise, or return a string.
\* _try_googletrans, _try_deep_translator and _try_google_api turn every
\* failure into an exception; _simple_translate (lines 230-268) never raises
\* and never returns an empty string.
Outcomes(engine, arg) ==
    LET replies == {[out |-> "reply", reply |-> r] : r \in Answers \cup {arg}}
        raise   == [out |-> "raise", reply |-> <<>>]
    IN IF engine = "simple"
       THEN {o \in replies : o.reply # <<>>}
       ELSE replies \cup {raise}

\* TextProtector.handle_separator_prefix_translation.
HandleSeparatorPrefix(t, sep) ==
    IF ~Contains(t, sep) THEN [text |-> t, has |-> FALSE]
    ELSE LET suffix == Strip(From(t, Find(t, sep) + Len(sep)))
         IN IF suffix = <<>> THEN [text |-> t, has |-> FALSE]
            ELSE [text |-> suffix, has |-> TRUE]

\* The prefix joined to a translated suffix (translate, lines 104-107, and
\* restore_separator_prefix_translation, lines 181-184).
JoinPrefix(prefix, translated) ==
    IF ~EndsWith(prefix, <<" ">>)
    THEN Strip(prefix \o <<" ">> \o translated)
    ELSE Strip(prefix \o translated)

\* TextProtector.restore_separator_prefix_translation.
RestoreSeparatorPrefix(original, translated, sep) ==
    IF ~Contains(original, sep) THEN translated
    ELSE JoinPrefix(UpTo(original, Find(original, sep) + Len(sep)), translated)

\* What _try_gemini (GeminiTranslator.translate_text) can do with a non-blank
\* text: raise without asking (no client), return the text without asking (no
\* separator or no suffix in separator mode, or nothing left to translate
\* after protection), raise after asking, or return the answer, joined to the
\* prefix in separator mode.  The answer stands for Gemini's response after
\* _clean_translation_result and restore_text.
GeminiOutcomes(t, mode) ==
    LET h == IF mode THEN HandleSeparatorPrefix(t, Separator)
                     ELSE [text |-> t, has |-> FALSE]
        unasked == {[out |-> "raise", reply |-> <<>>, asked |-> FALSE],
                    [out |-> "reply", reply |-> t, asked |-> FALSE]}
        asked == {[out |-> "raise", reply |-> <<>>, asked |-> TRUE]}
                 \cup {[out |-> "reply", asked |-> TRUE,
                        reply |-> IF mode /\ h.has
                                  THEN RestoreSeparatorPrefix(t, r, Separator)
                                  ELSE r] : r \in Answers \cup {h.text}}
    IN IF mode /\ ~h.has THEN unasked ELSE unasked \cup asked

\* The comparison of line 115 turned around.
AcceptedUnchanged(res, t) == res # <<>> /\ res = t

\* `if result and result != text` (line 115).
Accepted(res, t) == res # <<>> /\ res # t

\* An engine's exception let through to the caller.
OnEngineExceptionPropagate == "propagate"

\* `except Exception: continue` (lines 117-118): what translate does when an
\* engine raises.
OnEngineException == "continue"

\* `not text or not text.strip()` (line 83).
Blank(t) == IF t = <<>> THEN TRUE ELSE Strip(t) = <<>>

EngineInit ==
    /\ SplitIdle
    /\ MergeIdle
    /\ ProtectorIdle
    /\ TabIdle
    /\ text \in Texts
    /\ after_sep \in BOOLEAN
    /\ has_gemini \in BOOLEAN
    /\ epc = "start"
    /\ ei = 0
    /\ tried = <<>>
    /\ result = <<>>
    /\ raised = FALSE

\* Lines 83-84: an empty or blank text is returned at once.
TranslateBlank ==
    /\ UNCHANGED notEngine
    /\ epc = "start"
    /\ Blank(text)
    /\ result' = text
    /\ epc' = "done"
    /\ UNCHANGED <<text, after_sep, has_gemini, ei, tried, raised>>

TranslateEnter ==
    /\ UNCHANGED notEngine
    /\ epc = "start"
    /\ ~Blank(text)
    /\ epc' = "loop"
    /\ UNCHANGED <<text, after_sep, has_gemini, ei, tried, result, raised>>

\* The end of one iteration of `for engine in self.engines` (lines 115-118).
EngineStep(res, threw, entry) ==
    /\ tried' = tried \o entry
    /\ IF threw
       THEN IF OnEngineException = "continue"
            THEN ei' = ei + 1 /\ UNCHANGED <<epc, result, raised>>
            ELSE epc' = "done" /\ raised' = TRUE /\ UNCHANGED <<ei, result>>
       ELSE IF Accepted(res, text)
            THEN epc' = "done" /\ result' = res /\ UNCHANGED <<ei, raised>>
            ELSE ei' = ei + 1 /\ UNCHANGED <<epc, result, raised>>
    /\ UNCHANGED <<text, after_sep, has_gemini>>

\* Lines 90-91: the engine is _try_gemini, which gets the separator options.
TryGemini ==
    /\ UNCHANGED notEngine
    /\ epc = "loop"
    /\ ei < Len(Engines(has_gemini))
    /\ Engines(has_gemini)[ei + 1] = "gemini"
    /\ \E o \in GeminiOutcomes(text, after_sep) :
          EngineStep(o.reply, o.out = "raise",
                     <<[engine |-> "gemini", arg |-> text, asked |-> o.asked,
                        out |-> o.out, reply |-> o.reply]>>)

\* Lines 94-111: another engine, separator mode on and the separator in the text.
TryEngineAfterSeparator ==
    /\ UNCHANGED notEngine
    /\ epc = "loop"
    /\ ei < Len(Engines(has_gemini))
    /\ Engines(has_gemini)[ei + 1] # "gemini"
    /\ after_sep /\ Contains(text, Separator)
    /\ LET engine == Engines(has_gemini)[ei + 1]
           separator_index == Find(text, Separator)
           prefix == UpTo(text, separator_index + Len(Separator))
           suffix == Strip(From(text, separator_index + Len(Separator)))
       IN IF suffix # <<>>
          THEN \E o \in Outcomes(engine, suffix) :
                  EngineStep(IF o.reply # <<>> /\ o.reply # suffix
                             THEN JoinPrefix(prefix, o.reply) ELSE text,
                             o.out = "raise",
                             <<[engine |-> engine, arg |-> suffix, asked |-> TRUE,
                                out |-> o.out, reply |-> o.reply]>>)
          ELSE EngineStep(text, FALSE, <<>>)

\* Lines 112-113: another engine, called with the whole text.
TryEngineWhole ==
    /\ UNCHANGED notEngine
    /\ epc = "loop"
    /\ ei < Len(Engines(has_gemini))
    /\ Engines(has_gemini)[ei + 1] # "gemini"
    /\ ~(after_sep /\ Contains(text, Separator))
    /\ LET engine == Engines(has_gemini)[ei + 1]
       IN \E o \in Outcomes(engine, text) :
             EngineStep(o.reply, o.out = "raise",
                        <<[engine |-> engine, arg |-> text, asked |-> TRUE,
                           out |-> o.out, reply |-> o.reply]>>)

\* Lines 120-121: no engine gave an accepted result.
TranslateGiveUp ==
    /\ UNCHANGED notEngine
    /\ epc = "loop"
    /\ ei = Len(Engines(has_gemini))
    /\ result' = text
    /\ epc' = "done"
    /\ UNCHANGED <<text, after_sep, has_gemini, ei, tried, raised>>

EngineNext ==
    \/ TranslateBlank
    \/ TranslateEnter
    \/ TryGemini
    \/ TryEngineAfterSeparator
    \/ TryEngineWhole
    \/ TranslateGiveUp

SpecEngine == EngineInit /\ [][EngineNext]_vars

\* ------------------------------------------ claims on the fallback chain
\* The first k engine calls raised and call k+1 returned a string.
FirstAnswerAt(k) ==
    /\ k + 1 <= Len(tried)
    /\ \A i \in 1..k : tried[i].out = "raise"
    /\ tried[k + 1].out = "reply"

\* C3 as stated: when the first k backends raise and the (k+1)th returns a
\* string different from the input, translate returns exactly that string and
\* invokes no backend after the (k+1)th.
FirstDifferentAnswerWins ==
    \A k \in 0..Len(tried) :
        (FirstAnswerAt(k) /\ tried[k + 1].reply # text) =>
            /\ epc = "done"
            /\ result = tried[k + 1].reply
            /\ Len(tried) = k + 1

\* C3 amended: when the first k backends raise and the (k+1)th, called with
\* the whole text, returns a non-empty string different from the input,
\* translate returns exactly that string and invokes no backend after it.
FirstAnswerWins ==
    \A k \in 0..Len(tried) :
        (/\ FirstAnswerAt(k)
         /\ tried[k + 1].arg = text
         /\ tried[k + 1].reply # <<>>
         /\ tried[k + 1].reply # text) =>
            /\ epc = "done"
            /\ ~raised
            /\ result = tried[k + 1].reply
            /\ Len(tried) = k + 1

\* Two backends raised and the third one's answer was returned.
FirstAnswerWinsWitness ==
    /\ epc = "done"
    /\ Len(tried) = 3
    /\ FirstAnswerAt(2)
    /\ tried[3].arg = text
    /\ tried[3].reply = <<"x">>
    /\ result = <<"x">>

\* Every engine call so far raised or returned what it was given.
AllFailed == \A i \in 1..Len(tried) : tried[i].out = "raise" \/ tried[i].reply = tried[i].arg

\* C4: when every backend of the chain raises or returns its input unchanged,
\* translate returns the original text and does not raise.
AllFailReturnsOriginal ==
    (epc = "done" /\ AllFailed) => (result = text /\ ~raised)

\* The whole chain was gone through, some engines raising and some returning
\* their input.
AllFailWitness ==
    /\ epc = "done"
    /\ AllFailed
    /\ Len(tried) = Len(Engines(has_gemini))
    /\ \E i \in 1..Len(tried) : tried[i].out = "raise"
    /\ \E i \in 1..Len(tried) : tried[i].out = "reply"
    /\ result = text

\* PREFIX<SEP> of a text that holds the separator.
PrefixOf(t) == UpTo(t, Find(t, Separator) + Len(Separator))
\* SUFFIX of a text that holds the separator.
SuffixOf(t) == From(t, Find(t, Separator) + Len(Separator))

\* C5: in separator mode, the text returned for PREFIX<SEP>SUFFIX with a
\* non-empty SUFFIX starts with PREFIX<SEP>, unchanged.
PrefixKept ==
    (epc = "done" /\ after_sep /\ Contains(text, Separator) /\ SuffixOf(text) # <<>>)
        => StartsWith(result, PrefixOf(text))

\* C6: in separator mode, a text without the separator, or with nothing after
\* the first separator, is returned unchanged and no backend is asked to
\* translate it.
NoSeparatorUntouched ==
    (/\ epc = "done"
     /\ after_sep
     /\ ~Contains(text, Separator) \/ SuffixOf(text) = <<>>)
        => (result = text /\ \A i \in 1..Len(tried) : ~tried[i].asked)

\* ------------------------------------------------------- text protector
\* The patterns a TranslationEngine enables by default
\* (translation_manager.py line 43), each with its delimiters:
\* curly_braces is \{[^}]*\} and square_brackets is \[[^\]]*\].
PatternNames == {"curly_braces", "square_brackets"}

PatternOpen(name) == IF name = "curly_braces" THEN "{" ELSE "["
PatternClose(name) == IF name = "curly_braces" THEN "}" ELSE "]"

ProtectAlphabet == {"{", "}", "[", "]", "a"}

\* f"{self.placeholder_prefix}{placeholder_counter}{self.placeholder_suffix}"
Placeholder(n) ==
    <<"§", "P", "R", "O", "T", "E", "C", "T", "E", "D", "_">> \o Decimal(n) \o <<"§">>

\* Source texts that already hold the characters of a placeholder, next to
\* something a pattern matches.
QuotingTexts == {Placeholder(1) \o <<"{", "a", "}">>, <<"{", "a", "}">> \o Placeholder(2)}

ProtectTexts == SeqsUpTo(ProtectAlphabet, MaxProtectLen) \cup QuotingTexts

\* Whether sub occurs in s.
Occurs(sub, s) ==
    \E k \in 1..(Len(s) - Len(sub) + 1) : SubSeq(s, k, k + Len(sub) - 1) = sub

\* re.sub(pattern, replace_match, s) for a pattern open[^close]*close: the
\* matches are taken leftmost first and do not overlap; a match runs from an
\* opening delimiter to the first closing delimiter after it.  Every match
\* is replaced by a placeholder numbered from cnt + 1 on.
RECURSIVE SubPattern(_, _, _, _)
SubPattern(s, open, close, cnt) ==
    IF s = <<>> THEN [text |-> <<>>, placeholders |-> <<>>, counter |-> cnt]
    ELSE IF Head(s) = open /\ \E j \in 2..Len(s) : s[j] = close
    THEN LET j == CHOOSE j \in 2..Len(s) :
                      s[j] = close /\ \A k \in 2..(j - 1) : s[k] # close
             ph == Placeholder(cnt + 1)
             rest == SubPattern(SubSeq(s, j + 1, Len(s)), open, close, cnt + 1)
         IN [text |-> ph \o rest.text,
             placeholders |-> <<[placeholder |-> ph, original |-> SubSeq(s, 1, j)]>>
                                  \o rest.placeholders,
             counter |-> rest.counter]
    ELSE LET rest == SubPattern(Tail(s), open, close, cnt)
         IN [text |-> <<Head(s)>> \o rest.text,
             placeholders |-> rest.placeholders,
             counter |-> rest.counter]

\* s.replace(old, new) for a non-empty old.
RECURSIVE Replace(_, _, _)
Replace(s, old, new) ==
    IF Len(s) < Len(old) THEN s
    ELSE IF SubSeq(s, 1, Len(old)) = old
    THEN new \o Replace(SubSeq(s, Len(old) + 1, Len(s)), old, new)
    ELSE <<Head(s)>> \o Replace(Tail(s), old, new)

\* The loop of restore_text (lines 119-120) over the placeholders from the
\* i-th on, in the dict's (insertion) order.
RECURSIVE RestoreFrom(_, _, _)
RestoreFrom(t, phs, i) ==
    IF i > Len(phs) THEN t
    ELSE RestoreFrom(Replace(t, phs[i].placeholder, phs[i].original), phs, i + 1)

\* TextProtector.restore_text.
RestoreText(translated, phs) ==
    IF translated = <<>> \/ phs = <<>> THEN translated
    ELSE RestoreFrom(translated, phs, 1)

ProtectorInit ==
    /\ SplitIdle
    /\ MergeIdle
    /\ EngineIdle
    /\ TabIdle
    /\ ptext \in ProtectTexts
    /\ enabled_patterns \in SUBSET PatternNames
    /\ ppc = "start"
    /\ todo = {}
    /\ protected_text = <<>>
    /\ placeholders = <<>>
    /\ placeholder_counter = 0
    /\ restored_text = <<>>

\* Lines 79-84 of protect_text: nothing to do for an empty text or with no
\* pattern enabled; otherwise the loop starts.
ProtectStart ==
    /\ UNCHANGED notProtector
    /\ ppc = "start"
    /\ protected_text' = ptext
    /\ placeholders' = <<>>
    /\ placeholder_counter' = 0
    /\ IF ptext = <<>> \/ enabled_patterns = {}
       THEN ppc' = "protected" /\ todo' = {}
       ELSE ppc' = "protecting" /\ todo' = enabled_patterns
    /\ UNCHANGED <<ptext, enabled_patterns, restored_text>>

\* Lines 86-99: one iteration of `for pattern_name in self.enabled_patterns`.
\* enabled_patterns is a set of strings: the order of its iteration is any.
ProtectApply ==
    /\ UNCHANGED notProtector
    /\ ppc = "protecting"
    /\ \E name \in todo :
          LET r == SubPattern(protected_text, PatternOpen(name), PatternClose(name),
                              placeholder_counter)
          IN /\ protected_text' = r.text
             /\ placeholders' = placeholders \o r.placeholders
             /\ placeholder_counter' = r.counter
             /\ todo' = todo \ {name}
    /\ UNCHANGED <<ptext, enabled_patterns, ppc, restored_text>>

\* Line 101: every enabled pattern was applied.
ProtectReturn ==
    /\ UNCHANGED notProtector
    /\ ppc = "protecting"
    /\ todo = {}
    /\ ppc' = "protected"
    /\ UNCHANGED <<ptext, enabled_patterns, todo, protected_text, placeholders,
                   placeholder_counter, restored_text>>

\* restore_text on what protect_text returned.
Restore ==
    /\ UNCHANGED notProtector
    /\ ppc = "protected"
    /\ restored_text' = RestoreText(protected_text, placeholders)
    /\ ppc' = "restored"
    /\ UNCHANGED <<ptext, enabled_patterns, todo, protected_text, placeholders,
                   placeholder_counter>>

ProtectorNext ==
    \/ ProtectStart
    \/ ProtectApply
    \/ ProtectReturn
    \/ Restore

SpecProtector == ProtectorInit /\ [][ProtectorNext]_vars

\* ------------------------------------------ claims on the text protector
\* C7: for every text without a placeholder in it and every set of enabled
\* patterns, restore_text(protect_text(text)) is the text.
HoldsPlaceholder(s) == \E n \in 1..Len(s) : Occurs(Placeholder(n), s)

ProtectRoundTrip ==
    (ppc = "restored" /\ ~HoldsPlaceholder(ptext)) => restored_text = ptext

\* C21: the placeholder tokens of one protect_text call are pairwise
\* different, each standing for one original substring, and none of them
\* occurs in the source text itself.
PlaceholdersSound ==
    ppc \in {"protected", "restored"} =>
        /\ \A i, j \in 1..Len(placeholders) :
              placeholders[i].placeholder = placeholders[j].placeholder => i = j
        /\ \A i \in 1..Len(placeholders) :
              ~Occurs(placeholders[i].placeholder, ptext)

\* ------------------------------------------------------ translation data
\* The original texts a loaded line may have (an empty line, a line to translate).
Originals == {<<>>, <<"a">>}

\* What the user may have typed into the translated_text box.
TypedTexts == {<<>>, <<" ">>, <<"x">>}

TabFiles == UNION {[1..n -> Originals] : n \in 1..MaxTabLines}

\* TranslationData.load_from_file (lines 285-300): the lines a file gives.
LoadedLines(f) ==
    [i \in 1..Len(f) |-> [original |-> f[i], translated |-> <<>>,
                          is_translated |-> FALSE, status |-> "pending",
                          skip_translation |-> FALSE]]

\* The flag computed without trimming the text.
IsTranslatedUntrimmed(t) == t # <<>>

\* bool(translated_text.strip()) (line 323).
IsTranslated(t) == Strip(t) # <<>>

\* TranslationData.translate_line (lines 319-326), on a 0-based line_index.
TranslateLine(ls, line_index, t) ==
    IF 0 <= line_index /\ line_index < Len(ls)
    THEN [ls EXCEPT ![line_index + 1] =
             [@ EXCEPT !.translated = t,
                       !.is_translated = IsTranslated(t),
                       !.status = IF Strip(t) # <<>> THEN "completed" ELSE "pending"]]
    ELSE ls

\* A toggle that also drops the translation of the line it skips.
ToggledLineCleared(l) ==
    IF ~l.skip_translation
    THEN [l EXCEPT !.skip_translation = TRUE, !.status = "skipped",
                   !.translated = <<>>, !.is_translated = FALSE]
    ELSE [l EXCEPT !.skip_translation = FALSE,
                   !.status = IF l.is_translated THEN "completed" ELSE "pending"]

\* The line after lines 331-341 of toggle_skip_translation.
ToggledLine(l) ==
    IF ~l.skip_translation
    THEN [l EXCEPT !.skip_translation = TRUE, !.status = "skipped"]
    ELSE [l EXCEPT !.skip_translation = FALSE,
                   !.status = IF l.is_translated THEN "completed" ELSE "pending"]

\* TranslationData.toggle_skip_translation (lines 328-343).
ToggleSkipTranslation(ls, line_index) ==
    IF 0 <= line_index /\ line_index < Len(ls)
    THEN [ls EXCEPT ![line_index + 1] = ToggledLine(@)]
    ELSE ls

\* TranslationData.get_lines_to_translate (lines 349-352): 0-based indices.
GetLinesToTranslate(ls) ==
    SelectSeq([i \in 1..Len(ls) |-> i - 1],
              LAMBDA i : /\ ~ls[i + 1].skip_translation
                         /\ ~ls[i + 1].is_translated
                         /\ Strip(ls[i + 1].original) # <<>>)

\* -------------------------------------- TranslationData under any caller
\* The texts a caller may pass to translate_line: what was typed, what a
\* backend answered, the original handed back.
GivenTexts == TypedTexts \cup Answers \cup Originals

DataFiles == UNION {[1..n -> Originals] : n \in 1..MaxDataLines}

\* The 0-based indices a caller may pass: in range, and one off each end.
DataIndices == -1..MaxDataLines

DataInit ==
    /\ SplitIdle
    /\ MergeIdle
    /\ EngineIdle
    /\ ProtectorIdle
    /\ TabIdle

\* The part of the tab's state that TranslationData does not own.
notData == <<selected_line, gemini_available, is_working, cancel_translation,
             progress_window, workers, ui_queue, root_alive>>

\* TranslationData.load_from_file (lines 285-303) of a readable file.
DataLoadFromFile ==
    /\ UNCHANGED <<notTab, notData>>
    /\ \E f \in DataFiles : lines' = LoadedLines(f)
    /\ last_op' = [kind |-> "load_from_file", line |-> -1, outcome |-> "True"]

\* TranslationData.translate_line (lines 319-326).
DataTranslateLine ==
    /\ UNCHANGED <<notTab, notData>>
    /\ \E line_index \in DataIndices, t \in GivenTexts :
          /\ lines' = TranslateLine(lines, line_index, t)
          /\ last_op' = [kind |-> "translate_line", line |-> line_index,
                         outcome |-> IF 0 <= line_index /\ line_index < Len(lines)
                                     THEN "True" ELSE "False"]

\* TranslationData.toggle_skip_translation (lines 328-343).
DataToggleSkipTranslation ==
    /\ UNCHANGED <<notTab, notData>>
    /\ \E line_index \in DataIndices :
          /\ lines' = ToggleSkipTranslation(lines, line_index)
          /\ last_op' = [kind |-> "toggle_skip_translation", line |-> line_index,
                         outcome |-> IF 0 <= line_index /\ line_index < Len(lines)
                                     THEN "True" ELSE "False"]

DataNext ==
    \/ DataLoadFromFile
    \/ DataTranslateLine
    \/ DataToggleSkipTranslation

SpecData == DataInit /\ [][DataNext]_vars

\* --------------------------------------------- claims on TranslationData
\* C9: in every state of TranslationData reached by load_from_file,
\* translate_line (a reset is translate_line with the empty text) and
\* toggle_skip_translation, each line's is_translated flag is true exactly
\* when its translated text is non-empty after trimming whitespace.
FlagIffTranslatedText ==
    \A i \in 1..Len(lines) :
        lines[i].is_translated <=> (Strip(lines[i].translated) # <<>>)

\* A translated line next to one that was given only whitespace.
FlagIffTranslatedTextWitness ==
    /\ last_op.kind = "translate_line"
    /\ \E i, j \in 1..Len(lines) :
          /\ lines[i].is_translated
          /\ Strip(lines[i].translated) # <<>>
          /\ lines[j].translated # <<>>
          /\ Strip(lines[j].translated) = <<>>
          /\ ~lines[j].is_translated

\* C10: toggle_skip_translation on a line changes neither the line's
\* translated text nor its is_translated flag (nor any other line), so a
\* skipped line keeps the translation it had.
ToggleSkipKeepsTranslation ==
    [][last_op'.kind = "toggle_skip_translation" =>
          /\ Len(lines') = Len(lines)
          /\ \A i \in 1..Len(lines) :
                /\ lines'[i].translated = lines[i].translated
                /\ lines'[i].is_translated = lines[i].is_translated]_vars

\* A translated line that has just been marked as skipped.
ToggleSkipKeepsTranslationWitness ==
    /\ last_op.kind = "toggle_skip_translation"
    /\ last_op.outcome = "True"
    /\ lines[last_op.line + 1].skip_translation
    /\ lines[last_op.line + 1].is_translated
    /\ lines[last_op.line + 1].translated = <<"x">>

\* ------------------------------------------------------- translation tab
\* What translating a non-blank original can come to (lines 1866-1877 and
\* 2085-2096).  With Gemini available, gemini_translator.translate_text is
\* called directly: it raises, returns the original unasked, or returns the
\* cleaned answer (stripped, possibly empty).  Otherwise
\* TranslationEngine.translate is called: it never raises; it returns the
\* original when every backend failed, or the accepted result of a backend.
TranslationOutcomes(original, gemini) ==
    IF gemini
    THEN {[outcome |-> "raised", text |-> <<>>],
          [outcome |-> "returned", text |-> original],
          [outcome |-> "returned", text |-> <<>>],
          [outcome |-> "returned", text |-> <<"x">>]}
    ELSE {[outcome |-> "all_failed", text |-> original]}
         \cup {[outcome |-> "translated", text |-> t] :
                   t \in {r \in Answers : Accepted(r, original)}}

\* The main window takes input only while the progress dialog, which holds
\* the grab (grab_set, gui/base.py line 151), is not open.
MainWindowFree == progress_window = "none"

\* The other components at rest, for a specification of one dialog or helper.
OthersIdle ==
    /\ SplitIdle /\ MergeIdle /\ EngineIdle /\ ProtectorIdle /\ FilesIdle
    /\ lines = <<>> /\ selected_line = -1 /\ gemini_available = FALSE
    /\ is_working = FALSE /\ cancel_translation = FALSE /\ progress_window = "none"
    /\ workers = <<>> /\ ui_queue = <<>> /\ root_alive = TRUE /\ last_op = NoOp

TabInit ==
    /\ FilesIdle
    /\ DialogsIdle
    /\ SplitIdle
    /\ MergeIdle
    /\ EngineIdle
    /\ ProtectorIdle
    /\ lines = <<>>
    /\ selected_line = -1
    /\ gemini_available \in BOOLEAN
    /\ is_working = FALSE
    /\ cancel_translation = FALSE
    /\ progress_window = "none"
    /\ workers = <<>>
    /\ ui_queue = <<>>
    /\ root_alive = TRUE
    /\ last_op = NoOp

\* load_file_for_translation (lines 817-829) with a readable file.
LoadFile ==
    /\ UNCHANGED <<notTab, root_alive>>
    /\ root_alive
    /\ MainWindowFree
    /\ \E f \in TabFiles : lines' = LoadedLines(f)
    /\ last_op' = NoOp
    /\ UNCHANGED <<selected_line, gemini_available, is_working, cancel_translation,
                   progress_window, workers, ui_queue>>

\* A click on a row of the grid outside the skip column (lines 1718-1721).
SelectLine ==
    /\ UNCHANGED <<notTab, root_alive>>
    /\ root_alive
    /\ MainWindowFree
    /\ \E i \in 0..(Len(lines) - 1) : selected_line' = i
    /\ last_op' = NoOp
    /\ UNCHANGED <<lines, gemini_available, is_working, cancel_translation,
                   progress_window, workers, ui_queue>>

\* translate_selected_line (lines 1834-1892), past its early returns.
TranslateSelectedLine ==
    /\ UNCHANGED <<notTab, root_alive>>
    /\ root_alive
    /\ MainWindowFree
    /\ selected_line # -1
    /\ 0 <= selected_line /\ selected_line < Len(lines)
    /\ Strip(lines[selected_line + 1].original) # <<>>
    /\ \E o \in TranslationOutcomes(lines[selected_line + 1].original, gemini_available) :
          /\ lines' = IF o.outcome = "raised" THEN lines
                      ELSE TranslateLine(lines, selected_line, o.text)
          /\ last_op' = [kind |-> "translate_selected_line", line |-> selected_line,
                         outcome |-> o.outcome]
    /\ UNCHANGED <<selected_line, gemini_available, is_working, cancel_translation,
                   progress_window, workers, ui_queue>>

\* save_selected_line (lines 1894-1911).
SaveSelectedLine ==
    /\ UNCHANGED <<notTab, root_alive>>
    /\ root_alive
    /\ MainWindowFree
    /\ selected_line # -1
    /\ \E typed \in TypedTexts : lines' = TranslateLine(lines, selected_line, Strip(typed))
    /\ last_op' = [kind |-> "save_selected_line", line |-> selected_line, outcome |-> "none"]
    /\ UNCHANGED <<selected_line, gemini_available, is_working, cancel_translation,
                   progress_window, workers, ui_queue>>

\* reset_selected_line (lines 1913-1927).
ResetSelectedLine ==
    /\ UNCHANGED <<notTab, root_alive>>
    /\ root_alive
    /\ MainWindowFree
    /\ selected_line # -1
    /\ lines' = TranslateLine(lines, selected_line, <<>>)
    /\ last_op' = [kind |-> "reset_selected_line", line |-> selected_line, outcome |-> "none"]
    /\ UNCHANGED <<selected_line, gemini_available, is_working, cancel_translation,
                   progress_window, workers, ui_queue>>

\* toggle_skip_line (lines 1929-1950), from a click on the skip column of a
\* row or from the checkbox of the selected line.
ToggleSkipLine ==
    /\ UNCHANGED <<notTab, root_alive>>
    /\ root_alive
    /\ MainWindowFree
    /\ \E i \in 0..(Len(lines) - 1) :
          /\ lines' = ToggleSkipTranslation(lines, i)
          /\ last_op' = [kind |-> "toggle_skip_line", line |-> i, outcome |-> "none"]
    /\ UNCHANGED <<selected_line, gemini_available, is_working, cancel_translation,
                   progress_window, workers, ui_queue>>

\* translate_all_file (lines 2002-2032), confirmed, and _translate_lines_batch
\* (lines 2034-2053): the flags are set, the progress dialog opened and a
\* worker thread started.  The code puts no limit on the batches in flight;
\* room says whether the model follows one more.
StartBatch(room) ==
    /\ UNCHANGED <<notTab, root_alive>>
    /\ root_alive
    /\ MainWindowFree
    /\ lines # <<>>
    /\ GetLinesToTranslate(lines) # <<>>
    /\ room
    /\ is_working' = TRUE
    /\ cancel_translation' = FALSE
    /\ progress_window' = "prepare"
    /\ workers' = Append(workers, [line_indices |-> GetLinesToTranslate(lines),
                                   i |-> 0, pc |-> "start", original |-> <<>>,
                                   flagged |-> FALSE,
                                   started |-> <<>>, finished |-> <<>>])
    /\ last_op' = NoOp
    /\ UNCHANGED <<lines, selected_line, gemini_available, ui_queue>>

\* The batches started and not yet completed: the threads, and the
\* completions waiting in the event loop's queue.
BatchesInFlight ==
    Len(workers) + Len(SelectSeq(ui_queue,
                                 LAMBDA c : c.fn = "_translation_batch_completed"))

\* The "translate all" button, pressed while no batch is in flight.
TranslateAllFileAlone == StartBatch(BatchesInFlight = 0)

\* The "translate all" button, pressed whether or not a batch is in flight.
TranslateAllFile == StartBatch(BatchesInFlight < MaxBatches)

\* The dialog's cancel button: close_progress_dialog (gui/base.py lines 199-203).
CloseProgressDialog ==
    /\ UNCHANGED <<notTab, root_alive>>
    /\ root_alive
    /\ progress_window # "none"
    /\ progress_window' = "none"
    /\ last_op' = NoOp
    /\ UNCHANGED <<lines, selected_line, gemini_available, is_working,
                   cancel_translation, workers, ui_queue>>

\* A call of after that schedules nothing the event loop knows.
CallbackDropped(fn, res, error) == [fn |-> "dropped", result |-> res, error |-> error]

\* parent.after(0, fn, result, error): the callback the event loop will run.
Callback(fn, res, error) == [fn |-> fn, result |-> res, error |-> error]

\* The thread writing the dialog's label itself.
DirectUpdateProgress(q, label) ==
    [queue |-> q, label |-> IF label = "none" THEN label ELSE "item"]

\* self.parent.after(0, self.update_progress_dialog, message) (lines
\* 2072-2073): the update is left to the event loop, the label is not touched.
AfterUpdateProgress(q, label) ==
    [queue |-> Append(q, Callback("update_progress_dialog", "none", "none")),
     label |-> label]

\* A loop that takes the items from the end of the list.
BatchItemFromEnd(line_indices, i) == line_indices[Len(line_indices) - i]

\* for i, line_index in enumerate(line_indices) (line 2065): the item of the
\* loop's pass number i, counted from 0.
BatchItemAt(line_indices, i) == line_indices[i + 1]

RemoveAt(q, k) == [j \in 1..(Len(q) - 1) |-> IF j < k THEN q[j] ELSE q[j + 1]]

\* on_closing (main_gui.py lines 443-464), the handler of the window's close
\* request: the cancel flag is set, then the user is asked; on yes the root
\* window is destroyed, and with it the dialog and the scheduled callbacks.
\* A thread's flagged field records that the flag was set while it ran; its
\* started and finished fields record, in order, the lines whose item it has
\* begun and ended.
OnClosing ==
    /\ UNCHANGED notTab
    /\ root_alive
    /\ cancel_translation' = TRUE
    /\ workers' = [k \in 1..Len(workers) |-> [workers[k] EXCEPT !.flagged = TRUE]]
    /\ \E answer \in BOOLEAN :
          IF answer
          THEN root_alive' = FALSE /\ progress_window' = "none" /\ ui_queue' = <<>>
          ELSE UNCHANGED <<root_alive, progress_window, ui_queue>>
    /\ last_op' = NoOp
    /\ UNCHANGED <<lines, selected_line, gemini_available, is_working>>

\* _translate_batch_thread, lines 2057-2062: the thread's first statements
\* read two Tk variables, outside any try.  Without the root window the read
\* raises and the thread dies of it.
BatchBegin ==
    /\ UNCHANGED <<notTab, root_alive>>
    /\ \E k \in 1..Len(workers) :
          /\ workers[k].pc = "start"
          /\ workers' = [workers EXCEPT ![k].pc = IF root_alive THEN "loop" ELSE "died"]
    /\ last_op' = NoOp
    /\ UNCHANGED <<lines, selected_line, gemini_available, is_working,
                   cancel_translation, progress_window, ui_queue>>

\* _translate_batch_thread, lines 2065-2067 and 2110-2113: the loop is over,
\* or the cancel flag is seen; the completion is scheduled and the thread
\* ends.  Without the root window parent.after raises, in the try and again
\* in its handler, and the thread dies of it.  The thread's success_count and
\* error_count only feed the completion message and are left out.
BatchExit ==
    /\ UNCHANGED <<notTab, root_alive>>
    /\ \E k \in 1..Len(workers) :
          LET w == workers[k]
          IN /\ w.pc = "loop"
             /\ w.i = Len(w.line_indices) \/ cancel_translation
             /\ IF root_alive
                THEN /\ ui_queue' = Append(ui_queue, Callback("_translation_batch_completed", "none", "none"))
                     /\ workers' = RemoveAt(workers, k)
                ELSE /\ ui_queue' = ui_queue
                     /\ workers' = [workers EXCEPT ![k].pc = "died"]
    /\ last_op' = NoOp
    /\ UNCHANGED <<lines, selected_line, gemini_available, is_working,
                   cancel_translation, progress_window>>

\* Lines 2065-2096: the next item; the progress update is scheduled, the
\* line is read and the translation requested.  Without the root window, or
\* with a line index past the end of the data (another file was loaded
\* meanwhile), this raises, which counts as an error of the item.
BatchRequest ==
    /\ UNCHANGED <<notTab, root_alive>>
    /\ \E k \in 1..Len(workers) :
          LET w == workers[k]
              line_index == BatchItemAt(w.line_indices, w.i)
          IN /\ w.pc = "loop"
             /\ w.i < Len(w.line_indices)
             /\ ~cancel_translation
             /\ LET shown == IF root_alive
                             THEN AfterUpdateProgress(ui_queue, progress_window)
                             ELSE [queue |-> ui_queue, label |-> progress_window]
                IN /\ ui_queue' = shown.queue
                   /\ progress_window' = shown.label
             /\ IF root_alive /\ line_index < Len(lines)
                THEN /\ workers' = [workers EXCEPT ![k].pc = "request",
                                       ![k].original = lines[line_index + 1].original,
                                       ![k].started = Append(@, line_index)]
                     /\ last_op' = NoOp
                ELSE /\ workers' = [workers EXCEPT ![k].i = @ + 1,
                                       ![k].started = Append(@, line_index),
                                       ![k].finished = Append(@, line_index)]
                     /\ last_op' = [kind |-> "batch_item", line |-> line_index,
                                    outcome |-> "raised"]
    /\ UNCHANGED <<lines, selected_line, gemini_available, is_working,
                   cancel_translation>>

\* Lines 2085-2107: the translation comes back, or raises; translate_line
\* stores what came back.
BatchItem ==
    /\ UNCHANGED <<notTab, root_alive>>
    /\ \E k \in 1..Len(workers) :
          LET w == workers[k]
              line_index == BatchItemAt(w.line_indices, w.i)
          IN /\ w.pc = "request"
             /\ \E o \in TranslationOutcomes(w.original, gemini_available) :
                   /\ lines' = IF o.outcome = "raised" THEN lines
                               ELSE TranslateLine(lines, line_index, o.text)
                   /\ workers' = [workers EXCEPT ![k].pc = "loop", ![k].i = @ + 1,
                                                  ![k].original = <<>>,
                                                  ![k].finished = Append(@, line_index)]
                   /\ last_op' = [kind |-> "batch_item", line |-> line_index,
                                  outcome |-> o.outcome]
    /\ UNCHANGED <<selected_line, gemini_available, is_working, cancel_translation,
                   progress_window, ui_queue>>

\* _translation_batch_completed (lines 2115-2133), run by the event loop.
BatchCompleted ==
    /\ UNCHANGED <<notTab, root_alive>>
    /\ root_alive
    /\ ui_queue # <<>>
    /\ Head(ui_queue).fn = "_translation_batch_completed"
    /\ ui_queue' = Tail(ui_queue)
    /\ is_working' = FALSE
    /\ progress_window' = "none"
    /\ last_op' = NoOp
    /\ UNCHANGED <<lines, selected_line, gemini_available, cancel_translation, workers>>

\* update_progress_dialog (gui/base.py lines 190-197), run by the event
\* loop: the label of the dialog, if there is one, shows the item's message.
UpdateProgressDialog ==
    /\ UNCHANGED <<notTab, root_alive>>
    /\ root_alive
    /\ ui_queue # <<>>
    /\ Head(ui_queue).fn = "update_progress_dialog"
    /\ ui_queue' = Tail(ui_queue)
    /\ progress_window' = IF progress_window = "none" THEN "none" ELSE "item"
    /\ last_op' = NoOp
    /\ UNCHANGED <<lines, selected_line, gemini_available, is_working,
                   cancel_translation, workers>>

TabNext ==
    \/ LoadFile
    \/ SelectLine
    \/ TranslateSelectedLine
    \/ SaveSelectedLine
    \/ ResetSelectedLine
    \/ ToggleSkipLine
    \/ TranslateAllFileAlone
    \/ CloseProgressDialog
    \/ OnClosing
    \/ BatchBegin
    \/ BatchExit
    \/ BatchRequest
    \/ BatchItem
    \/ BatchCompleted
    \/ UpdateProgressDialog

SpecTab == TabInit /\ [][TabNext]_vars

\* The tab used for batch translation only: a file is loaded, batches are
\* started whether or not one is in flight, their dialogs closed, the window
\* closed.
BatchNext ==
    \/ LoadFile
    \/ TranslateAllFile
    \/ CloseProgressDialog
    \/ OnClosing
    \/ BatchBegin
    \/ BatchExit
    \/ BatchRequest
    \/ BatchItem
    \/ BatchCompleted
    \/ UpdateProgressDialog

SpecBatch == TabInit /\ [][BatchNext]_vars

\* ------------------------------------------------- the custom pattern dialog
MaxPatternLen == 3   \* longest enumerated entry of the pattern field

\* The characters of the pattern field: a literal, the group delimiters, a
\* repeat, a blank.
PatternAlphabet == {"a", "(", ")", "*", " "}

PatternEntries == SeqsUpTo(PatternAlphabet, MaxPatternLen)

NameEntries == {<<>>, <<" ">>, <<"n">>, <<"m">>}

\* re.compile(pattern) read left to right from position i on: depth is the
\* number of open groups, prev what the last item was.  re.error is raised
\* for a ")" without its "(", for a "*" with nothing to repeat or after
\* another "*", and for a "(" left open at the end.
RECURSIVE CompilesFrom(_, _, _, _)
CompilesFrom(p, i, depth, prev) ==
    IF i > Len(p) THEN depth = 0
    ELSE IF p[i] = "(" THEN CompilesFrom(p, i + 1, depth + 1, "open")
    ELSE IF p[i] = ")" THEN depth > 0 /\ CompilesFrom(p, i + 1, depth - 1, "atom")
    ELSE IF p[i] = "*" THEN prev = "atom" /\ CompilesFrom(p, i + 1, depth, "star")
    ELSE CompilesFrom(p, i + 1, depth, "atom")

Compiles(p) == CompilesFrom(p, 1, 0, "start")

\* A dialog that stores whatever was typed.
AcceptsUnchecked(p) == TRUE

\* save_pattern's try: re.compile(pattern) / except re.error (lines 1307-1312).
PassesValidation(p) == Compiles(p)

\* TextProtector.add_custom_pattern (ai_translator.py lines 58-67), reached
\* through GeminiTranslator.add_custom_protection_pattern: self.patterns[name]
\* = pattern.
AddCustomPattern(ps, name, pattern) ==
    {e \in ps : e.name # name} \cup {[name |-> name, pattern |-> pattern]}

\* save_pattern (translation_manager.py lines 1298-1325), the dialog's "add"
\* button, with what the two entry fields hold.
SavePattern ==
    /\ UNCHANGED notPatterns
    /\ \E name_entry \in NameEntries, pattern_entry \in PatternEntries :
          LET name == Strip(name_entry)
              pattern == Strip(pattern_entry)
          IN IF name = <<>> \/ pattern = <<>>
             THEN /\ pattern_report' = "error_empty"
                  /\ UNCHANGED <<custom_patterns, custom_enabled, pattern_vars>>
             ELSE IF ~PassesValidation(pattern)
             THEN /\ pattern_report' = "error_regex"
                  /\ UNCHANGED <<custom_patterns, custom_enabled, pattern_vars>>
             ELSE IF gemini_available
             THEN /\ custom_patterns' = AddCustomPattern(custom_patterns, name, pattern)
                  /\ custom_enabled' = custom_enabled \cup {name}
                  /\ pattern_vars' = pattern_vars \cup {name}
                  /\ pattern_report' = "added"
             ELSE /\ pattern_report' = "error_gemini"
                  /\ UNCHANGED <<custom_patterns, custom_enabled, pattern_vars>>

PatternsNext == SavePattern

SpecPatterns == TabInit /\ [][PatternsNext]_vars

\* C24: a custom protection pattern that does not compile is rejected with
\* an error before it is stored: every pattern among the protector's
\* patterns compiles.
StoredPatternsCompile ==
    \A e \in custom_patterns : Compiles(e.pattern)

\* A malformed pattern has just been rejected, after one was accepted.
StoredPatternsCompileWitness ==
    pattern_report = "error_regex" /\ custom_patterns # {}

\* ------------------------------------------------------------- pagination
MaxItems == 7        \* largest enumerated total_items
MaxPerPage == 4      \* largest enumerated items_per_page

\* A page count that rounds down.
TotalPagesFloor(total, per_page) ==
    IF total <= 0 \/ per_page <= 0 THEN 0 ELSE total \div per_page

\* calculate_pagination (ui_utils.py lines 148-165; utils.py lines 374-391):
\* the total_pages it returns.
TotalPages(total, per_page) ==
    IF total <= 0 \/ per_page <= 0 THEN 0
    ELSE (total + per_page - 1) \div per_page

\* items[a:b] for 0 <= a <= b: Python clamps both ends to len(items).
Slice(items, a, b) == SubSeq(items, Min(a, Len(items)) + 1, Min(b, Len(items)))

\* get_page_items (ui_utils.py lines 168-186; utils.py lines 394-412).
GetPageItems(items, p, per_page) ==
    IF p <= 0 \/ per_page <= 0 THEN <<>>
    ELSE Slice(items, (p - 1) * per_page, (p - 1) * per_page + per_page)

\* The list the pages are taken of: its items are their own indices.
Items(n) == [i \in 1..n |-> i - 1]

PagesInit ==
    /\ OthersIdle
    /\ PatternsIdle
    /\ SaveIdle
    /\ NavIdle
    /\ total_items \in 0..MaxItems
    /\ items_per_page \in 0..MaxPerPage
    /\ gpc = "start"
    /\ total_pages = 0
    /\ page = 0
    /\ slices = <<>>

\* total_pages, page_numbers = calculate_pagination(total_items, items_per_page)
CalculatePagination ==
    /\ UNCHANGED notPages
    /\ gpc = "start"
    /\ total_pages' = TotalPages(total_items, items_per_page)
    /\ gpc' = "paging"
    /\ UNCHANGED <<total_items, items_per_page, page, slices>>

\* get_page_items(items, p, items_per_page) for the next p of 1..total_pages.
TakePage ==
    /\ UNCHANGED notPages
    /\ gpc = "paging"
    /\ page < total_pages
    /\ page' = page + 1
    /\ slices' = Append(slices, GetPageItems(Items(total_items), page + 1, items_per_page))
    /\ UNCHANGED <<total_items, items_per_page, gpc, total_pages>>

\* Every page of 1..total_pages has been taken.
PagesTaken ==
    /\ UNCHANGED notPages
    /\ gpc = "paging"
    /\ page = total_pages
    /\ gpc' = "done"
    /\ UNCHANGED <<total_items, items_per_page, total_pages, page, slices>>

PagesNext ==
    \/ CalculatePagination
    \/ TakePage
    \/ PagesTaken

SpecPages == PagesInit /\ [][PagesNext]_vars

RECURSIVE SumLen(_)
SumLen(ss) == IF ss = <<>> THEN 0 ELSE Len(Head(ss)) + SumLen(Tail(ss))

Elems(seq) == {seq[i] : i \in 1..Len(seq)}

\* C22: for total_items >= 0 and items_per_page > 0, the slices
\* get_page_items returns for the pages 1..total_pages of
\* calculate_pagination have lengths that sum to total_items, and no two of
\* them share an item.
PagesPartition ==
    (gpc = "done" /\ items_per_page > 0) =>
        /\ SumLen(slices) = total_items
        /\ \A p, q \in 1..Len(slices) :
              p # q => Elems(slices[p]) \cap Elems(slices[q]) = {}

\* Several pages were taken, the last of them not full.
PagesPartitionWitness ==
    /\ gpc = "done" /\ items_per_page > 1
    /\ Len(slices) >= 2
    /\ Len(slices[Len(slices)]) < items_per_page

\* ------------------------------------- the page controls of the tab
MaxPagerLines == 12   \* longest file loaded into the page controls
SpinFrom == 5         \* from_ of the page-size spinbox
SpinTo == 50          \* to of the page-size spinbox
SizeButtons == {5, 10, 15}

\* What can be typed into the spinbox: any number, 0 included.
TypedSizes == 0..SpinTo

\* What can be typed into the jump entry and read by int().
JumpEntries == 0..(MaxPagerLines + 1)

\* A file of n one-letter lines.
PagerFile(n) == [i \in 1..n |-> <<"a">>]

notNav == <<splitVars, prepVars, mrgVars, engVars, protVars, fileVars, patVars,
            pageVars, saveVars, notData, last_op>>

\* update_grid_display (lines 1637-1654), called with the given current page
\* and page size: nothing for no lines; otherwise total_pages is stored and a
\* current page beyond a positive total_pages is pulled back to it.
UpdateGridDisplay(ls, cur, per_page) ==
    IF ls = <<>>
    THEN /\ current_page' = cur
         /\ var_total_pages' = var_total_pages
    ELSE LET total == TotalPages(Len(ls), per_page)
         IN  /\ var_total_pages' = total
             /\ current_page' = IF cur > total /\ total > 0 THEN total ELSE cur

\* load_file_for_translation (lines 817-829) of a readable file.
NavLoadFile ==
    /\ UNCHANGED notNav
    /\ \E n \in 0..MaxPagerLines :
          /\ lines' = LoadedLines(PagerFile(n))
          /\ UpdateGridDisplay(lines', 1, lines_per_page)
    /\ UNCHANGED lines_per_page

\* set_page_size (lines 1591-1594), the buttons 5, 10 and 15.
SetPageSize ==
    /\ UNCHANGED <<notNav, lines>>
    /\ \E size \in SizeButtons :
          /\ lines_per_page' = size
          /\ UpdateGridDisplay(lines, current_page, size)

\* An arrow of the spinbox (lines 634-641): the value moves by one within
\* from_..to and command=self.update_grid_display runs.
SpinboxArrow ==
    /\ UNCHANGED <<notNav, lines>>
    /\ \E step \in {-1, 1} :
          /\ lines_per_page' = Max(SpinFrom, Min(SpinTo, lines_per_page + step))
          /\ UpdateGridDisplay(lines, current_page, lines_per_page')

\* A number typed into the spinbox: textvariable stores it in lines_per_page;
\* the spinbox has no validation and its command runs for the arrows only.
SpinboxTyped ==
    /\ UNCHANGED <<notNav, lines>>
    /\ \E size \in TypedSizes : lines_per_page' = size
    /\ UNCHANGED <<current_page, var_total_pages>>

\* goto_first_page (lines 1596-1599).
GotoFirstPage ==
    /\ UNCHANGED <<notNav, lines, lines_per_page>>
    /\ UpdateGridDisplay(lines, 1, lines_per_page)

\* goto_last_page (lines 1601-1606).
GotoLastPage ==
    /\ UNCHANGED <<notNav, lines, lines_per_page>>
    /\ var_total_pages > 0
    /\ UpdateGridDisplay(lines, var_total_pages, lines_per_page)

\* goto_prev_page (lines 1608-1613).
GotoPrevPage ==
    /\ UNCHANGED <<notNav, lines, lines_per_page>>
    /\ current_page > 1
    /\ UpdateGridDisplay(lines, current_page - 1, lines_per_page)

\* goto_next_page (lines 1615-1621).
GotoNextPage ==
    /\ UNCHANGED <<notNav, lines, lines_per_page>>
    /\ current_page < var_total_pages
    /\ UpdateGridDisplay(lines, current_page + 1, lines_per_page)

\* jump_to_page (lines 1623-1635) with a number in the entry; a number out
\* of 1..total_pages shows an error and changes nothing.
JumpToPage ==
    /\ UNCHANGED <<notNav, lines, lines_per_page>>
    /\ \E p \in JumpEntries :
          /\ 1 <= p /\ p <= var_total_pages
          /\ UpdateGridDisplay(lines, p, lines_per_page)

NavNext ==
    \/ NavLoadFile
    \/ SetPageSize
    \/ SpinboxArrow
    \/ SpinboxTyped
    \/ GotoFirstPage
    \/ GotoLastPage
    \/ GotoPrevPage
    \/ GotoNextPage
    \/ JumpToPage

SpecNav == DataInit /\ [][NavNext]_vars

\* C30: with a file of at least one line loaded, after any page operation
\* the current page lies in 1..total_pages, total_pages being the ceiling of
\* the line count over the page size.
CurrentPageInRange ==
    lines # <<>> =>
        /\ 1 <= current_page
        /\ current_page <= TotalPages(Len(lines), lines_per_page)

\* ------------------------------------------------- saving the translation
\* The lines save_to_file writes (lines 366-371): the translation of a line
\* that has one, the original otherwise.
OutputLines(ls) ==
    [i \in 1..Len(ls) |-> IF ls[i].is_translated /\ Strip(ls[i].translated) # <<>>
                          THEN ls[i].translated ELSE ls[i].original]

\* load_from_file (lines 280-303) of the file the model follows: its lines
\* are read from disk and file_path set.
SaveLoadFromFile ==
    /\ UNCHANGED <<splitVars, prepVars, mrgVars, engVars, protVars, fileVars,
                   patVars, pageVars, navVars, notData>>
    /\ \E f \in IF file_path = "none" THEN DataFiles ELSE {disk_file} :
          /\ lines' = LoadedLines(f)
          /\ disk_file' = f
    /\ file_path' = "file"
    /\ last_op' = [kind |-> "load_from_file", line |-> -1, outcome |-> "True"]
    /\ UNCHANGED <<last_backup, last_save>>

\* save_all_translations (lines 2137-2146) and save_to_file() (lines 354-376)
\* on the loaded file: create_backup_file (utils.py lines 241-264) copies the
\* file or, when the copy raises, returns None; its result is not looked at.
\* write_file_lines then rewrites the file, or fails and returns False.
SaveToFile ==
    /\ UNCHANGED notSave
    /\ lines # <<>>
    /\ file_path # "none"
    /\ \E backup \in {"copied", "None"}, ok \in BOOLEAN :
          /\ last_backup' = IF backup = "copied" THEN disk_file ELSE last_backup
          /\ disk_file' = IF ok THEN OutputLines(lines) ELSE disk_file
          /\ last_save' = [kind |-> "save_to_file", backup |-> backup,
                           written |-> ok, before |-> disk_file]
    /\ UNCHANGED file_path

SaveNext ==
    \/ SaveLoadFromFile
    \/ DataTranslateLine
    \/ SaveToFile

SpecSave == DataInit /\ [][SaveNext]_vars

\* C23: the loaded file is never overwritten in place without a backup file
\* holding its content from before the overwrite having been written first.
BackupBeforeOverwrite ==
    last_save.written =>
        /\ last_save.backup = "copied"
        /\ last_backup = last_save.before

\* ------------------------------------------------------------ the file tabs
\* FileSplitterTab and FileMergerTab (file_operations.py): a button starts a
\* daemon thread that calls split_text_file or merge_text_files and schedules
\* the completion with parent.after.  A tab is a record: working is the
\* is_working flag, button the state of the start button (and of the progress
\* bar), thread the worker thread, outcome how the library call of the last
\* run ended, shown what the results box and the message box report.

\* The ways split_text_file ends: a pair (files, folder) (line 91), a bare
\* empty list after an I/O exception (line 85), an exception (lines 29, 42).
SplitResults == {"files", "empty", "raised"}

\* The ways merge_text_files ends: the output file's name (line 154), None
\* after an I/O exception (line 151), an exception (line 119).
MergeResults == {"file", "None", "raised"}

\* An unpacking that takes whatever the call returned.
UnpackAccepts(res) == FALSE

\* output_files, output_dir = result (line 286): unpacking the bare empty list
\* raises ValueError.
UnpackRaises(res) == res = "empty"

\* start_split (lines 252-275), with a valid form.
StartSplit ==
    /\ UNCHANGED notFiles
    /\ root_alive
    /\ ~split_tab.working
    /\ split_tab' = [split_tab EXCEPT !.working = TRUE, !.button = "disabled",
                                      !.thread = "running", !.outcome = "none"]
    /\ UNCHANGED <<merge_tab, ui_queue>>

\* _split_file_thread (lines 277-292).  Without the root window the reads of
\* the Tk variables raise, and so does parent.after in the handler: the
\* thread dies of it.
SplitThread ==
    /\ UNCHANGED notFiles
    /\ split_tab.thread = "running"
    /\ IF root_alive
       THEN \E res \in SplitResults :
               LET failed == res = "raised" \/ UnpackRaises(res)
               IN /\ split_tab' = [split_tab EXCEPT !.thread = "none", !.outcome = res]
                  /\ ui_queue' = Append(ui_queue,
                                        Callback("_split_completed",
                                                 IF failed THEN "none" ELSE res,
                                                 IF failed THEN "error" ELSE "none"))
       ELSE /\ split_tab' = [split_tab EXCEPT !.thread = "died"]
            /\ ui_queue' = ui_queue
    /\ UNCHANGED merge_tab

\* _split_completed (lines 294-328), run by the event loop.
SplitCompleted ==
    /\ UNCHANGED notFiles
    /\ root_alive
    /\ ui_queue # <<>>
    /\ Head(ui_queue).fn = "_split_completed"
    /\ ui_queue' = Tail(ui_queue)
    /\ split_tab' = [split_tab EXCEPT
                        !.working = FALSE, !.button = "normal",
                        !.shown = IF Head(ui_queue).error # "none" THEN "error"
                                  ELSE "success"]
    /\ UNCHANGED merge_tab

\* start_merge (lines 593-687), with a valid form, files matching the pattern
\* and the confirmation given.
StartMerge ==
    /\ UNCHANGED notFiles
    /\ root_alive
    /\ ~merge_tab.working
    /\ merge_tab' = [merge_tab EXCEPT !.working = TRUE, !.button = "disabled",
                                      !.thread = "running", !.outcome = "none"]
    /\ UNCHANGED <<split_tab, ui_queue>>

\* _merge_file_thread (lines 689-729).
MergeThread ==
    /\ UNCHANGED notFiles
    /\ merge_tab.thread = "running"
    /\ IF root_alive
       THEN \E res \in MergeResults :
               /\ merge_tab' = [merge_tab EXCEPT !.thread = "none", !.outcome = res]
               /\ ui_queue' = Append(ui_queue,
                                     Callback("_merge_completed",
                                              IF res = "raised" THEN "None" ELSE res,
                                              IF res = "raised" THEN "error" ELSE "none"))
       ELSE /\ merge_tab' = [merge_tab EXCEPT !.thread = "died"]
            /\ ui_queue' = ui_queue
    /\ UNCHANGED split_tab

\* _merge_completed (lines 731-782), run by the event loop.
MergeCompleted ==
    /\ UNCHANGED notFiles
    /\ root_alive
    /\ ui_queue # <<>>
    /\ Head(ui_queue).fn = "_merge_completed"
    /\ ui_queue' = Tail(ui_queue)
    /\ merge_tab' = [merge_tab EXCEPT
                        !.working = FALSE, !.button = "normal",
                        !.shown = IF \/ Head(ui_queue).error # "none"
                                     \/ Head(ui_queue).result = "None"
                                  THEN "error" ELSE "success"]
    /\ UNCHANGED split_tab

\* The two file tabs and the window's close request.
FilesNext ==
    \/ StartSplit
    \/ SplitThread
    \/ SplitCompleted
    \/ StartMerge
    \/ MergeThread
    \/ MergeCompleted
    \/ OnClosing

SpecFiles == TabInit /\ [][FilesNext]_vars

\* The three kinds of worker thread side by side, the window staying open
\* and the progress dialog left until the batch's completion closes it: the
\* file tabs, and the translation tab running one batch at a time.
WorkersNext ==
    \/ StartSplit
    \/ SplitThread
    \/ SplitCompleted
    \/ StartMerge
    \/ MergeThread
    \/ MergeCompleted
    \/ LoadFile
    \/ TranslateAllFileAlone
    \/ BatchBegin
    \/ BatchExit
    \/ BatchRequest
    \/ BatchItem
    \/ BatchCompleted
    \/ UpdateProgressDialog

SpecWorkers == TabInit /\ [][WorkersNext]_vars

\* ------------------------------------------- claims on the translation tab
\* C8: when translating a line fails (every backend failed, or an exception
\* was raised), the line's translated text, is_translated flag and status
\* are after the attempt what they were before it, in translate_selected_line
\* and in the batch thread alike.
FailedTranslationKeepsLine ==
    [][(/\ last_op'.kind \in {"translate_selected_line", "batch_item"}
        /\ last_op'.outcome \in {"raised", "all_failed"}
        /\ last_op'.line < Len(lines))
       => /\ Len(lines') = Len(lines)
          /\ lines'[last_op'.line + 1].translated = lines[last_op'.line + 1].translated
          /\ lines'[last_op'.line + 1].is_translated = lines[last_op'.line + 1].is_translated
          /\ lines'[last_op'.line + 1].status = lines[last_op'.line + 1].status]_vars

\* The batch threads that are running: started and neither ended nor dead.
Running == {k \in 1..Len(workers) : workers[k].pc # "died"}

\* C11: while a batch translation is in flight the controls that start
\* another one are disabled, so at most one batch-translation worker thread
\* is running at any time.
OneBatchWorker == Cardinality(Running) <= 1

\* The handlers of the single-line edits.
SingleLineEdits == {"translate_selected_line", "save_selected_line",
                    "reset_selected_line", "toggle_skip_line"}

\* C12: no single-line edit (translate, save, reset, toggle skip) changes the
\* translation data while a batch-translation thread is running.
NoEditDuringBatch ==
    [][(last_op'.kind \in SingleLineEdits /\ lines' # lines) => Running = {}]_vars

\* C13: once the cancel flag has been set while a batch thread runs, that
\* thread, back at the head of its loop, starts no further item: it never
\* goes on from the loop's check to request another line's translation.
CancelStopsBatch ==
    [][~(\E k \in 1..Len(workers) :
            /\ workers[k].flagged
            /\ workers[k].pc = "loop"
            /\ Len(workers') = Len(workers)
            /\ workers'[k].pc = "request")]_vars

\* C15: no exception leaves a worker thread uncaught: no batch thread dies
\* of an exception.
NoWorkerDied == \A k \in 1..Len(workers) : workers[k].pc # "died"

\* ------------------------------------------------ claims on the workers
InOrder(seq) == \A a, b \in 1..Len(seq) : a < b => seq[a] < seq[b]

\* C14: within one batch the lines are processed in the order given, by
\* ascending line index, one at a time: the items begun are a prefix of the
\* batch's list, the items ended are the items begun but at most the last,
\* so no item begins before the one before it has succeeded or failed.
BatchInOrder ==
    \A k \in 1..Len(workers) :
        LET w == workers[k]
        IN /\ InOrder(w.started)
           /\ Len(w.started) <= Len(w.line_indices)
           /\ w.started = SubSeq(w.line_indices, 1, Len(w.started))
           /\ Len(w.finished) \in {Len(w.started) - 1, Len(w.started)}
           /\ w.finished = SubSeq(w.started, 1, Len(w.finished))

\* A batch of two lines whose second item has begun, the first having ended.
BatchInOrderWitness ==
    \E k \in 1..Len(workers) :
        /\ Len(workers[k].started) = 2
        /\ Len(workers[k].finished) = 1
        /\ workers[k].pc = "request"

\* What the user sees: the status labels (set_working), the buttons and
\* progress bars, the result boxes, the progress dialog and its label.
Widgets == <<is_working, progress_window,
             split_tab.working, split_tab.button, split_tab.shown,
             merge_tab.working, merge_tab.button, merge_tab.shown>>

\* A step of a worker thread: of the batch thread, the split thread or the
\* merge thread.
WorkerStep ==
    \/ BatchBegin
    \/ BatchExit
    \/ BatchRequest
    \/ BatchItem
    \/ SplitThread
    \/ MergeThread

\* C16: no step of a worker thread changes a widget; the completions and the
\* per-item progress updates reach the widgets only as callbacks the event
\* loop runs.
WorkersLeaveWidgets == [][WorkerStep => UNCHANGED Widgets]_vars

\* All three workers have handed their updates to the event loop, and none
\* has been run yet: the widgets still show the operations as under way.
WorkersLeaveWidgetsWitness ==
    /\ {ui_queue[j].fn : j \in 1..Len(ui_queue)} =
          {"update_progress_dialog", "_translation_batch_completed",
           "_split_completed", "_merge_completed"}
    /\ workers = <<>>
    /\ is_working
    /\ progress_window = "prepare"
    /\ split_tab.thread = "none" /\ split_tab.button = "disabled"
    /\ merge_tab.thread = "none" /\ merge_tab.button = "disabled"

\* C19: a split or merge started from the window whose library call ended in
\* an I/O failure (split_text_file returning the empty list, merge_text_files
\* returning None) is reported as an error once its completion has run, never
\* as a success.
IOFailureShownAsError ==
    /\ (split_tab.outcome = "empty" /\ ~split_tab.working) => split_tab.shown = "error"
    /\ (merge_tab.outcome = "None" /\ ~merge_tab.working) => merge_tab.shown = "error"

\* Both tabs have completed an operation that failed on I/O.
IOFailureShownAsErrorWitness ==
    /\ split_tab.outcome = "empty" /\ ~split_tab.working /\ split_tab.shown = "error"
    /\ merge_tab.outcome = "None" /\ ~merge_tab.working /\ merge_tab.shown = "error"

\* ------------------------------------------------ the workers under fairness
\* load_file_for_translation of a file of one line.
LoadOneLine == LoadFile /\ lines' = LoadedLines(<<<<"a">>>>)

\* The three kinds of worker and the window's close request.
LiveNext ==
    \/ StartSplit
    \/ SplitThread
    \/ SplitCompleted
    \/ StartMerge
    \/ MergeThread
    \/ MergeCompleted
    \/ LoadOneLine
    \/ TranslateAllFileAlone
    \/ BatchBegin
    \/ BatchExit
    \/ BatchRequest
    \/ BatchItem
    \/ BatchCompleted
    \/ UpdateProgressDialog
    \/ OnClosing

\* A started daemon thread keeps running until it ends, and Tk's event loop
\* runs every callback scheduled with after as long as the root window lives.
\* Nothing obliges the user to press a button.
LiveFairness ==
    /\ WF_vars(SplitThread)
    /\ WF_vars(MergeThread)
    /\ WF_vars(BatchBegin)
    /\ WF_vars(BatchExit)
    /\ WF_vars(BatchRequest)
    /\ WF_vars(BatchItem)
    /\ WF_vars(SplitCompleted)
    /\ WF_vars(MergeCompleted)
    /\ WF_vars(BatchCompleted)
    /\ WF_vars(UpdateProgressDialog)

SpecLive == TabInit /\ [][LiveNext]_vars /\ LiveFairness

\* C26 as stated: every worker operation that sets is_working eventually has
\* its completion run, which resets is_working.
WorkingEventuallyReset ==
    /\ is_working ~> ~is_working
    /\ split_tab.working ~> ~split_tab.working
    /\ merge_tab.working ~> ~merge_tab.working

\* C26: as long as the root window is not destroyed, every worker operation
\* that sets is_working eventually has its completion run on the event loop,
\* which resets is_working.
WorkingResetWhileWindowLives ==
    /\ is_working ~> (~is_working \/ ~root_alive)
    /\ split_tab.working ~> (~split_tab.working \/ ~root_alive)
    /\ merge_tab.working ~> (~merge_tab.working \/ ~root_alive)

\* A split, a merge and a batch have run and their completions have reset
\* the three flags, the window being open.
WorkingResetWhileWindowLivesWitness ==
    /\ root_alive
    /\ split_tab.shown # "none" /\ ~split_tab.working
    /\ merge_tab.shown # "none" /\ ~merge_tab.working
    /\ ~is_working /\ workers = <<>>
    /\ \E i \in 1..Len(lines) : lines[i].is_translated

\* ------------------------------------------------ claims on the line status
\* C27: in every state of TranslationData a line's status is "skipped"
\* exactly when its skip_translation flag is set; otherwise it is "completed"
\* when is_translated and "pending" when not.
StatusMatchesFlags ==
    \A i \in 1..Len(lines) :
        lines[i].status = IF lines[i].skip_translation THEN "skipped"
                          ELSE IF lines[i].is_translated THEN "completed"
                          ELSE "pending"

\* C28: the batch thread never stores a translation in a line whose
\* skip_translation flag is set at the moment the line is processed.
BatchSparesSkippedLines ==
    [][(/\ last_op'.kind = "batch_item"
        /\ last_op'.line < Len(lines)
        /\ lines' # lines)
       => ~lines[last_op'.line + 1].skip_translation]_vars

\* C29: the cancel flag is raised only when the window is actually closed:
\* no step that leaves the root window in place, a declined close request
\* included, raises the flag under a running batch thread.
CloseDeclinedKeepsBatch ==
    [][(root_alive' /\ Running # {}) => (cancel_translation' => cancel_translation)]_vars

====
